---- MODULE Spec2Model ----
(***************************************************************************)
(* gox: CrossCompile (goxlib main) and the toolchain bootstrap             *)
(* (mainBuildToolchain / BuildToolchain), as a state machine.              *)
(*                                                                         *)
(* One process is the caller of CrossCompile ("main", position pc); one    *)
(* process per (platform, unit) pair is a build goroutine (position        *)
(* wpc[w]); one process per platform is a toolchain goroutine (position    *)
(* tpc[p]).  External collaborators (exec.LookPath, GoVersion, GoMainDirs, *)
(* GoCrossCompile, the make script) are inputs chosen at the step that     *)
(* calls them.                                                             *)
(***************************************************************************)
EXTENDS Integers, Sequences, FiniteSets, TLC

\* ---------------------------------------------------------------- bounds
\* largest value of the -parallel flag that is tried
MaxParallel == 4
\* largest CPU count runtime.NumCPU() reports
MaxCPUs == 4
\* largest number of goroutines of one run (platforms x units)
MaxWorkers == 3
\* largest number of entries of one of the -os, -arch, -osarch lists
MaxEntries == 2
\* largest number of goroutines of one run followed under fair scheduling
MaxFairWorkers == 2

\* ------------------------------------------------------ program constants
\* default of the -parallel flag
DefaultParallel == 0 - 1
\* parallelism on Solaris-derived systems when none is requested
SolarisParallel == 3
\* the toolchain build is serial
ToolchainParallel == 1
\* first Go minor version that needs no toolchain build
NoToolchainMinor == 5

Nil == "nil"
NoCPUs == 0

Platform(os, arch) == [OS |-> os, Arch |-> arch]

\* SupportedPlatforms(version): the candidate matrix
SupportedPlatforms ==
    << Platform("linux", "amd64"), Platform("linux", "386"),
       Platform("darwin", "amd64") >>

PlatformSet == { SupportedPlatforms[i] : i \in DOMAIN SupportedPlatforms }

\* what platformFlag.Platforms(SupportedPlatforms(version)) can return:
\* a sub-list of the candidates, in the candidates' order
PlatformLists ==
    { SelectSeq(SupportedPlatforms, LAMBDA p : p \in S) : S \in SUBSET PlatformSet }

\* the main directories GoMainDirs can find
UnitPaths == << "a", "b" >>

UnitSet == { UnitPaths[i] : i \in DOMAIN UnitPaths }

MainDirLists == { SubSeq(UnitPaths, 1, n) : n \in 0..Len(UnitPaths) }

\* the values runtime.GOOS takes
GOOSes == { "linux", "solaris" }

\* the values GoVersionParts() returns
Versions == { <<1, 4>>, <<1, 5>>, <<2, 0>> }

\* a build goroutine is named by its (platform, path) arguments
Workers == PlatformSet \X UnitSet

VARIABLES
    pc,            \* position of the caller in CrossCompile / mainBuildToolchain
    parallel,      \* the package variable bound to -parallel
    buildToolchain,\* -build-toolchain
    flagListOSArch,\* -osarch-list
    goos,          \* runtime.GOOS
    onPath,        \* whether exec.LookPath finds the go command
    cpus,          \* cpus := runtime.NumCPU()
    versionParts,  \* versionParts, _ := GoVersionParts()
    err,           \* the err variable of the running main function
    mainDirs,      \* mainDirs
    platforms,     \* platforms
    spawned,       \* goroutines started so far by the range loops
    wg,            \* sync.WaitGroup counter
    semaphore,     \* number of values in the semaphore channel
    errorLock,     \* the goroutines holding errorLock (none: unlocked)
    mu,            \* the goroutines holding mu (none: unlocked)
    errors,        \* errors (CrossCompile) / errs (mainBuildToolchain)
    binPaths,      \* binPaths
    wpc,           \* position of every build goroutine
    werr,          \* err of GoCrossCompile in every build goroutine
    invoked,       \* calls of GoCrossCompile made by every build goroutine
    tpc,           \* position of every toolchain goroutine
    terr,          \* err of BuildToolchain in every toolchain goroutine
    launched,      \* calls of cmd.Start() made by every toolchain goroutine
    verbose,       \* the verbose parameter of mainBuildToolchain
    pipe,          \* the io.Pipe of every toolchain goroutine
    reader,        \* the streaming goroutine of every toolchain goroutine
    ret,           \* what CrossCompile returned
    fnArgs,        \* the function applied on its own, with its arguments
    fnResult       \* what that function returned

vars == << pc, parallel, buildToolchain, flagListOSArch, goos, onPath, cpus,
           versionParts, err, mainDirs, platforms, spawned, wg, semaphore,
           errorLock, mu, errors, binPaths, wpc, werr, invoked, tpc, terr,
           launched, verbose, pipe, reader, ret, fnArgs, fnResult >>

flagVars == << buildToolchain, flagListOSArch, goos, onPath, fnArgs, fnResult >>
syncVars == << wg, semaphore, errorLock, mu >>
listVars == << errors, binPaths >>
buildVars == << wpc, werr, invoked >>
streamVars == << verbose, pipe, reader >>
toolVars == << tpc, terr, launched, streamVars >>

\* no function is applied on its own
NoCall == [fn |-> "none"]

Init ==
    /\ fnArgs = NoCall
    /\ fnResult = NoCall
    /\ pc = "parallelism"
    /\ parallel \in DefaultParallel..MaxParallel
    /\ buildToolchain \in BOOLEAN
    /\ flagListOSArch \in BOOLEAN
    /\ goos \in GOOSes
    /\ onPath \in BOOLEAN
    /\ cpus = NoCPUs
    /\ versionParts = << >>
    /\ err = Nil
    /\ mainDirs = << >>
    /\ platforms = << >>
    /\ spawned = 0
    /\ wg = 0
    /\ semaphore = 0
    /\ errorLock = { }
    /\ mu = { }
    /\ errors = << >>
    /\ binPaths = << >>
    /\ wpc = [w \in Workers |-> "idle"]
    /\ werr = [w \in Workers |-> Nil]
    /\ invoked = [w \in Workers |-> 0]
    /\ tpc = [p \in PlatformSet |-> "idle"]
    /\ terr = [p \in PlatformSet |-> Nil]
    /\ launched = [p \in PlatformSet |-> 0]
    /\ verbose = FALSE
    /\ pipe = [p \in PlatformSet |-> "none"]
    /\ reader = [p \in PlatformSet |-> "none"]
    /\ ret = [paths |-> << >>, err |-> Nil]

\* ------------------------------------------------------------ CrossCompile

\* return paths, e
Return(paths, e) ==
    /\ pc' = "done"
    /\ ret' = [paths |-> paths, err |-> e]

\* DefaultParallelism without the floor of lines 213-214
DefaultParallelismNoFloor(ncpu) == ncpu - 1

\* lines 212-217: the default parallelism on a machine with ncpu CPUs
DefaultParallelism(ncpu) == IF ncpu < 2 THEN 1 ELSE ncpu - 1

\* SolarisDefault without the override of lines 223-225
SolarisDefaultNone(os, par) == par

\* lines 223-225: the default parallelism on the operating system os
SolarisDefault(os, par) == IF os = "solaris" THEN SolarisParallel ELSE par

\* lines 211-217: if parallel <= 0 { cpus := runtime.NumCPU(); ... }
Parallelism ==
    /\ pc = "parallelism"
    /\ \/ /\ parallel <= 0
          /\ \E n \in 1..MaxCPUs :
                /\ cpus' = n
                /\ parallel' = DefaultParallelism(n)
          /\ pc' = "solaris"
       \/ /\ parallel > 0
          /\ UNCHANGED << cpus, parallel >>
          /\ pc' = "mode"
    /\ UNCHANGED << flagVars, versionParts, err, mainDirs, platforms, spawned,
                    syncVars, listVars, buildVars, toolVars, ret >>

\* lines 219-226: if runtime.GOOS == "solaris" { parallel = 3 }
Solaris ==
    /\ pc = "solaris"
    /\ parallel' = SolarisDefault(goos, parallel)
    /\ pc' = "mode"
    /\ UNCHANGED << flagVars, cpus, versionParts, err, mainDirs, platforms,
                    spawned, syncVars, listVars, buildVars, toolVars, ret >>

\* lines 228-230: if buildToolchain { return nil, mainBuildToolchain(...) };
\* cpus is local to the block that ends at line 226
Mode ==
    /\ pc = "mode"
    /\ pc' = IF buildToolchain THEN "t_lookpath" ELSE "lookpath"
    /\ verbose' \in IF buildToolchain THEN BOOLEAN ELSE { FALSE }
    /\ cpus' = NoCPUs
    /\ UNCHANGED << parallel, flagVars, versionParts, err, mainDirs, platforms,
                    spawned, syncVars, listVars, buildVars, tpc, terr, launched,
                    pipe, reader, ret >>

\* lines 232-234: exec.LookPath(flagGoCmd)
LookPath ==
    /\ pc = "lookpath"
    /\ \/ /\ ~onPath
          /\ Return(<< >>, "executable must be on the PATH")
       \/ /\ onPath
          /\ pc' = "version"
          /\ ret' = ret
    /\ UNCHANGED << parallel, flagVars, cpus, versionParts, err, mainDirs,
                    platforms, spawned, syncVars, listVars, buildVars, toolVars >>

\* lines 236-243: version, err := GoVersion(), then -osarch-list
Version ==
    /\ pc = "version"
    /\ \/ /\ err' = "GoVersion failed"
          /\ Return(<< >>, "error reading Go version")
       \/ /\ err' = Nil
          /\ flagListOSArch
          /\ \E e \in { Nil, "mainListOSArch failed" } : Return(<< >>, e)
       \/ /\ err' = Nil
          /\ ~flagListOSArch
          /\ pc' = "maindirs"
          /\ ret' = ret
    /\ UNCHANGED << parallel, flagVars, cpus, versionParts, mainDirs,
                    platforms, spawned, syncVars, listVars, buildVars, toolVars >>

\* lines 247-256: mainDirs, err := GoMainDirs(packages, flagGoCmd)
MainDirs ==
    /\ pc = "maindirs"
    /\ \/ /\ err' = "GoMainDirs failed"
          /\ mainDirs' = << >>
          /\ Return(<< >>, "Error reading packages")
       \/ /\ err' = Nil
          /\ mainDirs' \in MainDirLists
          /\ pc' = "platforms"
          /\ ret' = ret
    /\ UNCHANGED << parallel, flagVars, cpus, versionParts, platforms, spawned,
                    syncVars, listVars, buildVars, toolVars >>

ErrNoValidPlatforms == "No valid platforms to build for"

\* Platforms without the emptiness check of lines 260-262
PlatformsUnchecked ==
    /\ pc = "platforms"
    /\ \E ps \in PlatformLists :
          /\ Len(ps) * Len(mainDirs) <= MaxWorkers
          /\ platforms' = ps
    /\ pc' = "spawn"
    /\ UNCHANGED << parallel, flagVars, cpus, versionParts, err, mainDirs,
                    spawned, syncVars, listVars, buildVars, toolVars, ret >>

\* lines 259-262
Platforms ==
    /\ pc = "platforms"
    /\ \E ps \in PlatformLists :
          /\ Len(ps) * Len(mainDirs) <= MaxWorkers
          /\ platforms' = ps
          /\ IF Len(ps) = 0
             THEN Return(<< >>, ErrNoValidPlatforms)
             ELSE /\ pc' = "spawn"
                  /\ ret' = ret
    /\ UNCHANGED << parallel, flagVars, cpus, versionParts, err, mainDirs,
                    spawned, syncVars, listVars, buildVars, toolVars >>

\* the pair the range loops of lines 272-273 reach in their k-th iteration
PairAt(k) ==
    << platforms[((k - 1) \div Len(mainDirs)) + 1],
       mainDirs[((k - 1) % Len(mainDirs)) + 1] >>

NumPairs == Len(platforms) * Len(mainDirs)

\* lines 272-276: wg.Add(1); go func(path, platform)
Spawn ==
    /\ pc = "spawn"
    /\ spawned < NumPairs
    /\ spawned' = spawned + 1
    /\ wg' = wg + 1
    /\ wpc' = [wpc EXCEPT ![PairAt(spawned + 1)] = "acquire"]
    /\ UNCHANGED << pc, parallel, flagVars, cpus, versionParts, err, mainDirs,
                    platforms, semaphore, errorLock, mu, listVars, werr, invoked,
                    toolVars, ret >>

\* the range loops end
SpawnEnd ==
    /\ pc = "spawn"
    /\ spawned = NumPairs
    /\ pc' = "wait"
    /\ UNCHANGED << parallel, flagVars, cpus, versionParts, err, mainDirs,
                    platforms, spawned, syncVars, listVars, buildVars,
                    toolVars, ret >>

\* line 311: wg.Wait()
Wait ==
    /\ pc = "wait"
    /\ wg = 0
    /\ pc' = "aggregate"
    /\ UNCHANGED << parallel, flagVars, cpus, versionParts, err, mainDirs,
                    platforms, spawned, syncVars, listVars, buildVars,
                    toolVars, ret >>

\* lines 313-321
Aggregate ==
    /\ pc = "aggregate"
    /\ IF Len(errors) > 0
       THEN Return(<< >>, err)
       ELSE Return(binPaths, Nil)
    /\ UNCHANGED << parallel, flagVars, cpus, versionParts, err, mainDirs,
                    platforms, spawned, syncVars, listVars, buildVars, toolVars >>

\* ------------------------------------------- the build goroutine, 276-308

\* what GoCrossCompile(opts) returns as binName
BinName(w, e) ==
    IF e = Nil
    THEN [dir |-> w[2], os |-> w[1].OS, arch |-> w[1].Arch]
    ELSE [dir |-> "", os |-> "", arch |-> ""]

\* Acquire on a channel that never fills
AcquireUnbounded(w) ==
    /\ wpc[w] = "acquire"
    /\ semaphore' = semaphore + 1
    /\ wpc' = [wpc EXCEPT ![w] = "compile"]
    /\ UNCHANGED << pc, parallel, flagVars, cpus, versionParts, err, mainDirs,
                    platforms, spawned, wg, errorLock, mu, listVars, werr,
                    invoked, toolVars, ret >>

\* line 278: semaphore <- 1
Acquire(w) ==
    /\ wpc[w] = "acquire"
    /\ semaphore < parallel
    /\ semaphore' = semaphore + 1
    /\ wpc' = [wpc EXCEPT ![w] = "compile"]
    /\ UNCHANGED << pc, parallel, flagVars, cpus, versionParts, err, mainDirs,
                    platforms, spawned, wg, errorLock, mu, listVars, werr, invoked,
                    toolVars, ret >>

\* Compile that is skipped once a sibling's error is recorded
CompileFailFast(w) ==
    /\ wpc[w] = "compile"
    /\ IF Len(errors) > 0
       THEN /\ wpc' = [wpc EXCEPT ![w] = "release"]
            /\ UNCHANGED << werr, invoked >>
       ELSE /\ invoked' = [invoked EXCEPT ![w] = @ + 1]
            /\ \/ /\ werr' = [werr EXCEPT ![w] = Nil]
                  /\ wpc' = [wpc EXCEPT ![w] = "lockMu"]
               \/ /\ werr' = [werr EXCEPT ![w] = "build failed"]
                  /\ wpc' = [wpc EXCEPT ![w] = "lockErr"]
    /\ UNCHANGED << pc, parallel, flagVars, cpus, versionParts, err, mainDirs,
                    platforms, spawned, syncVars, listVars, toolVars, ret >>

\* lines 279-298: opts, envOverride, binName, err = GoCrossCompile(opts)
Compile(w) ==
    /\ wpc[w] = "compile"
    /\ invoked' = [invoked EXCEPT ![w] = @ + 1]
    /\ \/ /\ werr' = [werr EXCEPT ![w] = Nil]
          /\ wpc' = [wpc EXCEPT ![w] = "lockMu"]
       \/ /\ werr' = [werr EXCEPT ![w] = "build failed"]
          /\ wpc' = [wpc EXCEPT ![w] = "lockErr"]
    /\ UNCHANGED << pc, parallel, flagVars, cpus, versionParts, err, mainDirs,
                    platforms, spawned, syncVars, listVars, toolVars, ret >>

\* lines 299-302: errorLock.Lock(); defer errorLock.Unlock(); errors = append(...)
LockErr(w) ==
    /\ wpc[w] = "lockErr"
    /\ errorLock = { }
    /\ errorLock' = { w }
    /\ errors' = Append(errors, [platform |-> w[1], err |-> werr[w]])
    /\ wpc' = [wpc EXCEPT ![w] = "lockMu"]
    /\ UNCHANGED << pc, parallel, flagVars, cpus, versionParts, err, mainDirs,
                    platforms, spawned, wg, semaphore, mu, binPaths, werr, invoked,
                    toolVars, ret >>

\* line 304: mu.Lock()
LockMu(w) ==
    /\ wpc[w] = "lockMu"
    /\ mu = { }
    /\ mu' = { w }
    /\ wpc' = [wpc EXCEPT ![w] = "appendBin"]
    /\ UNCHANGED << pc, parallel, flagVars, cpus, versionParts, err, mainDirs,
                    platforms, spawned, wg, semaphore, errorLock, listVars,
                    werr, invoked, toolVars, ret >>

\* lines 305-306: binPaths = append(binPaths, path + sep + binName); mu.Unlock()
AppendBin(w) ==
    /\ wpc[w] = "appendBin"
    /\ binPaths' = Append(binPaths, [path |-> w[2], binName |-> BinName(w, werr[w])])
    /\ mu' = mu \ { w }
    /\ wpc' = [wpc EXCEPT ![w] = "release"]
    /\ UNCHANGED << pc, parallel, flagVars, cpus, versionParts, err, mainDirs,
                    platforms, spawned, wg, semaphore, errorLock, errors, werr, invoked,
                    toolVars, ret >>

\* Release that a failed goroutine skips
ReleaseOnSuccess(w) ==
    /\ wpc[w] = "release"
    /\ semaphore > 0
    /\ semaphore' = IF werr[w] = Nil THEN semaphore - 1 ELSE semaphore
    /\ wpc' = [wpc EXCEPT ![w] = "deferred"]
    /\ UNCHANGED << pc, parallel, flagVars, cpus, versionParts, err, mainDirs,
                    platforms, spawned, wg, errorLock, mu, listVars, werr, invoked,
                    toolVars, ret >>

\* line 307: <-semaphore
Release(w) ==
    /\ wpc[w] = "release"
    /\ semaphore > 0
    /\ semaphore' = semaphore - 1
    /\ wpc' = [wpc EXCEPT ![w] = "deferred"]
    /\ UNCHANGED << pc, parallel, flagVars, cpus, versionParts, err, mainDirs,
                    platforms, spawned, wg, errorLock, mu, listVars, werr, invoked,
                    toolVars, ret >>

\* Deferred without the deferred errorLock.Unlock()
DeferredNoUnlock(w) ==
    /\ wpc[w] = "deferred"
    /\ wg' = wg - 1
    /\ wpc' = [wpc EXCEPT ![w] = "done"]
    /\ UNCHANGED << pc, parallel, flagVars, cpus, versionParts, err, mainDirs,
                    platforms, spawned, semaphore, errorLock, mu, listVars, werr,
                    invoked, toolVars, ret >>

\* line 308: the deferred calls, errorLock.Unlock() (if deferred) then wg.Done()
Deferred(w) ==
    /\ wpc[w] = "deferred"
    /\ errorLock' = errorLock \ { w }
    /\ wg' = wg - 1
    /\ wpc' = [wpc EXCEPT ![w] = "done"]
    /\ UNCHANGED << pc, parallel, flagVars, cpus, versionParts, err, mainDirs,
                    platforms, spawned, semaphore, mu, listVars, werr, invoked,
                    toolVars, ret >>

Worker(w) ==
    \/ Acquire(w)
    \/ Compile(w)
    \/ LockErr(w)
    \/ LockMu(w)
    \/ AppendBin(w)
    \/ Release(w)
    \/ Deferred(w)

\* ------------------------------------------------------ mainBuildToolchain

\* lines 17-21: exec.LookPath("go")
TLookPath ==
    /\ pc = "t_lookpath"
    /\ \/ /\ ~onPath
          /\ Return(<< >>, "executable file not found")
       \/ /\ onPath
          /\ pc' = "t_versionparts"
          /\ ret' = ret
    /\ UNCHANGED << parallel, flagVars, cpus, versionParts, err, mainDirs,
                    platforms, spawned, syncVars, listVars, buildVars, toolVars >>

\* line 29
NoToolchainNeeded(v) == v[1] >= 1 /\ v[2] >= NoToolchainMinor

\* lines 24-35: versionParts, err := GoVersionParts()
TVersionParts ==
    /\ pc = "t_versionparts"
    /\ \/ /\ err' = "GoVersionParts failed"
          /\ versionParts' = versionParts
          /\ Return(<< >>, err')
       \/ /\ err' = Nil
          /\ \E v \in Versions :
                /\ versionParts' = v
                /\ IF NoToolchainNeeded(v)
                   THEN Return(<< >>, err')
                   ELSE /\ pc' = "t_version"
                        /\ ret' = ret
    /\ UNCHANGED << parallel, flagVars, cpus, mainDirs, platforms, spawned,
                    syncVars, listVars, buildVars, toolVars >>

\* lines 37-41: version, err := GoVersion()
TVersion ==
    /\ pc = "t_version"
    /\ \/ /\ err' = "GoVersion failed"
          /\ Return(<< >>, err')
       \/ /\ err' = Nil
          /\ pc' = "t_goroot"
          /\ ret' = ret
    /\ UNCHANGED << parallel, flagVars, cpus, versionParts, mainDirs, platforms,
                    spawned, syncVars, listVars, buildVars, toolVars >>

\* lines 43-47: root, err := GoRoot()
TGoRoot ==
    /\ pc = "t_goroot"
    /\ \/ /\ err' = "GoRoot failed"
          /\ Return(<< >>, err')
       \/ /\ err' = Nil
          /\ pc' = "t_platforms"
          /\ ret' = ret
    /\ UNCHANGED << parallel, flagVars, cpus, versionParts, mainDirs, platforms,
                    spawned, syncVars, listVars, buildVars, toolVars >>

\* TPlatforms without parallel = 1 of line 63
TPlatformsRequested ==
    /\ pc = "t_platforms"
    /\ \E ps \in PlatformLists :
          /\ Len(ps) <= MaxWorkers
          /\ platforms' = ps
    /\ pc' = "t_spawn"
    /\ UNCHANGED << parallel, flagVars, cpus, versionParts, err, mainDirs,
                    spawned, syncVars, listVars, buildVars, toolVars, ret >>

\* lines 55-68: platforms, parallel = 1, semaphore := make(chan int, parallel)
TPlatforms ==
    /\ pc = "t_platforms"
    /\ \E ps \in PlatformLists :
          /\ Len(ps) <= MaxWorkers
          /\ platforms' = ps
    /\ parallel' = ToolchainParallel
    /\ pc' = "t_spawn"
    /\ UNCHANGED << flagVars, cpus, versionParts, err, mainDirs, spawned,
                    syncVars, listVars, buildVars, toolVars, ret >>

\* lines 69-79: wg.Add(1); go func(platform)
TSpawn ==
    /\ pc = "t_spawn"
    /\ spawned < Len(platforms)
    /\ spawned' = spawned + 1
    /\ wg' = wg + 1
    /\ tpc' = [tpc EXCEPT ![platforms[spawned + 1]] = "acquire"]
    /\ UNCHANGED << pc, parallel, flagVars, cpus, versionParts, err, mainDirs,
                    platforms, semaphore, errorLock, mu, listVars, buildVars,
                    terr, launched, streamVars,
                    ret >>

\* the range loop ends
TSpawnEnd ==
    /\ pc = "t_spawn"
    /\ spawned = Len(platforms)
    /\ pc' = "t_wait"
    /\ UNCHANGED << parallel, flagVars, cpus, versionParts, err, mainDirs,
                    platforms, spawned, syncVars, listVars, buildVars,
                    toolVars, ret >>

\* line 80: wg.Wait()
TWait ==
    /\ pc = "t_wait"
    /\ wg = 0
    /\ pc' = "t_aggregate"
    /\ UNCHANGED << parallel, flagVars, cpus, versionParts, err, mainDirs,
                    platforms, spawned, syncVars, listVars, buildVars,
                    toolVars, ret >>

\* lines 82-90; CrossCompile returns nil, mainBuildToolchain(...) (line 229)
TAggregate ==
    /\ pc = "t_aggregate"
    /\ IF Len(errors) > 0
       THEN Return(<< >>, err)
       ELSE Return(<< >>, Nil)
    /\ UNCHANGED << parallel, flagVars, cpus, versionParts, err, mainDirs,
                    platforms, spawned, syncVars, listVars, buildVars, toolVars >>

\* ------------------------------- the toolchain goroutine, 71-78 and 93-147

\* line 95: semaphore <- 1
TAcquire(p) ==
    /\ tpc[p] = "acquire"
    /\ semaphore < parallel
    /\ semaphore' = semaphore + 1
    /\ tpc' = [tpc EXCEPT ![p] = "start"]
    /\ UNCHANGED << pc, parallel, flagVars, cpus, versionParts, err, mainDirs,
                    platforms, spawned, wg, errorLock, mu, listVars, buildVars,
                    terr, launched, streamVars,
                    ret >>

\* lines 97-139: in verbose mode the pipe, the streaming goroutine and the
\* deferred w.Close(); <-doneCh; then cmd.Start()
TStart(p) ==
    /\ tpc[p] = "start"
    /\ launched' = [launched EXCEPT ![p] = @ + 1]
    /\ IF verbose
       THEN /\ pipe' = [pipe EXCEPT ![p] = "open"]
            /\ reader' = [reader EXCEPT ![p] = "reading"]
       ELSE UNCHANGED << pipe, reader >>
    /\ \/ /\ terr' = [terr EXCEPT ![p] = "Error building (start)"]
          /\ tpc' = [tpc EXCEPT ![p] = IF verbose THEN "closepipe" ELSE "release"]
       \/ /\ terr' = terr
          /\ tpc' = [tpc EXCEPT ![p] = "running"]
    /\ UNCHANGED << pc, parallel, flagVars, cpus, versionParts, err, mainDirs,
                    platforms, spawned, syncVars, listVars, buildVars, verbose,
                    ret >>

\* lines 141-146: cmd.Wait()
TCmdWait(p) ==
    /\ tpc[p] = "running"
    /\ \/ terr' = [terr EXCEPT ![p] = "Error building (exit)"]
       \/ terr' = [terr EXCEPT ![p] = Nil]
    /\ tpc' = [tpc EXCEPT ![p] = IF verbose THEN "closepipe" ELSE "release"]
    /\ UNCHANGED << pc, parallel, flagVars, cpus, versionParts, err, mainDirs,
                    platforms, spawned, syncVars, listVars, buildVars, launched,
                    streamVars, ret >>

\* line 132, deferred: w.Close()
TClosePipe(p) ==
    /\ tpc[p] = "closepipe"
    /\ pipe' = [pipe EXCEPT ![p] = "closed"]
    /\ tpc' = [tpc EXCEPT ![p] = "waitdone"]
    /\ UNCHANGED << pc, parallel, flagVars, cpus, versionParts, err, mainDirs,
                    platforms, spawned, syncVars, listVars, buildVars, terr,
                    launched, verbose, reader, ret >>

\* lines 125-130: the range over the lines of r ends at end-of-stream, then
\* the deferred close(doneCh)
TReader(p) ==
    /\ reader[p] = "reading"
    /\ pipe[p] = "closed"
    /\ reader' = [reader EXCEPT ![p] = "closed"]
    /\ UNCHANGED << pc, parallel, flagVars, cpus, versionParts, err, mainDirs,
                    platforms, spawned, syncVars, listVars, buildVars, tpc, terr,
                    launched, verbose, pipe, ret >>

\* TWaitDone that does not wait for the streaming goroutine
TWaitDoneNoWait(p) ==
    /\ tpc[p] = "waitdone"
    /\ tpc' = [tpc EXCEPT ![p] = "release"]
    /\ UNCHANGED << pc, parallel, flagVars, cpus, versionParts, err, mainDirs,
                    platforms, spawned, syncVars, listVars, buildVars, terr,
                    launched, streamVars, ret >>

\* line 133, deferred: <-doneCh
TWaitDone(p) ==
    /\ tpc[p] = "waitdone"
    /\ reader[p] = "closed"
    /\ tpc' = [tpc EXCEPT ![p] = "release"]
    /\ UNCHANGED << pc, parallel, flagVars, cpus, versionParts, err, mainDirs,
                    platforms, spawned, syncVars, listVars, buildVars, terr,
                    launched, streamVars, ret >>

\* line 96, deferred: <-semaphore
TRelease(p) ==
    /\ tpc[p] = "release"
    /\ semaphore > 0
    /\ semaphore' = semaphore - 1
    /\ tpc' = [tpc EXCEPT ![p] = "wgdone"]
    /\ UNCHANGED << pc, parallel, flagVars, cpus, versionParts, err, mainDirs,
                    platforms, spawned, wg, errorLock, mu, listVars, buildVars,
                    terr, launched, streamVars,
                    ret >>

\* line 94, deferred: wg.Done(); BuildToolchain returns to line 73
TWgDone(p) ==
    /\ tpc[p] = "wgdone"
    /\ wg' = wg - 1
    /\ tpc' = [tpc EXCEPT ![p] = IF terr[p] # Nil THEN "lockErr" ELSE "done"]
    /\ UNCHANGED << pc, parallel, flagVars, cpus, versionParts, err, mainDirs,
                    platforms, spawned, semaphore, errorLock, mu, listVars,
                    buildVars, terr, launched, streamVars,
                    ret >>

\* lines 74-75: errorLock.Lock(); defer errorLock.Unlock()
TLockErr(p) ==
    /\ tpc[p] = "lockErr"
    /\ errorLock = { }
    /\ errorLock' = { p }
    /\ tpc' = [tpc EXCEPT ![p] = "appendErr"]
    /\ UNCHANGED << pc, parallel, flagVars, cpus, versionParts, err, mainDirs,
                    platforms, spawned, wg, semaphore, mu, listVars, buildVars,
                    terr, launched, streamVars,
                    ret >>

\* lines 76-78: errs = append(errs, ...), then the deferred errorLock.Unlock()
TAppendErr(p) ==
    /\ tpc[p] = "appendErr"
    /\ errors' = Append(errors, [platform |-> p, err |-> terr[p]])
    /\ errorLock' = errorLock \ { p }
    /\ tpc' = [tpc EXCEPT ![p] = "done"]
    /\ UNCHANGED << pc, parallel, flagVars, cpus, versionParts, err, mainDirs,
                    platforms, spawned, wg, semaphore, mu, binPaths, buildVars,
                    terr, launched, streamVars,
                    ret >>

ToolWorker(p) ==
    \/ TAcquire(p)
    \/ TStart(p)
    \/ TCmdWait(p)
    \/ TClosePipe(p)
    \/ TReader(p)
    \/ TWaitDone(p)
    \/ TRelease(p)
    \/ TWgDone(p)
    \/ TLockErr(p)
    \/ TAppendErr(p)

\* ------------------------------------------------------------ the program

Main ==
    \/ Parallelism
    \/ Solaris
    \/ Mode
    \/ LookPath
    \/ Version
    \/ MainDirs
    \/ Platforms
    \/ Spawn
    \/ SpawnEnd
    \/ Wait
    \/ Aggregate

ToolMain ==
    \/ TLookPath
    \/ TVersionParts
    \/ TVersion
    \/ TGoRoot
    \/ TPlatforms
    \/ TSpawn
    \/ TSpawnEnd
    \/ TWait
    \/ TAggregate

Next ==
    \/ Main
    \/ ToolMain
    \/ \E w \in Workers : Worker(w)
    \/ \E p \in PlatformSet : ToolWorker(p)

Spec == Init /\ [][Next]_vars

\* ------------------------------------- the compile options, lines 281-295

\* strings.ToUpper on the names of the candidate platforms
ToUpper(str) ==
    CASE str = "linux" -> "LINUX"
      [] str = "darwin" -> "DARWIN"
      [] str = "amd64" -> "AMD64"
      [] str = "386" -> "386"
      [] OTHER -> str

\* the environment variable GOX_[OS]_[ARCH]_[key]
EnvKey(platform, key) == << "GOX", ToUpper(platform.OS), ToUpper(platform.Arch), key >>

EnvKeys == { EnvKey(p, k) : p \in PlatformSet, k \in { "LDFLAGS", "GCFLAGS" } }

\* envOverride(&target, platform, key): the variable's value if it is set
\* and not empty, else the target as it was
EnvOverride(target, platform, key, environ) ==
    IF environ[EnvKey(platform, key)] # "" THEN environ[EnvKey(platform, key)]
    ELSE target

\* lines 281-295: the opts that GoCrossCompile is called with
CompileOpts(path, platform, ldflagsFlag, gcflagsFlag, environ) ==
    [ PackagePath |-> path,
      Platform    |-> platform,
      Ldflags     |-> EnvOverride(ldflagsFlag, platform, "LDFLAGS", environ),
      Gcflags     |-> EnvOverride("", platform, "GCFLAGS", environ) ]

\* the values tried for -ldflags, -gcflags and the environment
LdflagsValues == { "", "-s" }
GcflagsValues == { "", "-N" }
Environs == [EnvKeys -> { "", "-env" }]

CompileOptsCalls ==
    { [fn |-> "CompileOpts", path |-> w[2], platform |-> w[1], ldflags |-> l,
       gcflags |-> g, environ |-> e] :
          w \in Workers, l \in LdflagsValues, g \in GcflagsValues, e \in Environs }

ApplyCompileOpts ==
    /\ fnArgs.fn = "CompileOpts"
    /\ fnResult = NoCall
    /\ fnResult' = [fn |-> "CompileOpts",
                    opts |-> CompileOpts(fnArgs.path, fnArgs.platform,
                                         fnArgs.ldflags, fnArgs.gcflags,
                                         fnArgs.environ)]
    /\ UNCHANGED << pc, parallel, buildToolchain, flagListOSArch, goos, onPath,
                    fnArgs, cpus, versionParts, err, mainDirs, platforms,
                    spawned, syncVars, listVars, buildVars, toolVars, ret >>

\* --------------------------------------- platformFlag.Platforms(supported)

\* the values of a selector list that are not negated / negated with "!"
Positive(sel) == { sel[i].val : i \in { j \in DOMAIN sel : ~sel[j].neg } }
Negated(sel) == { sel[i].val : i \in { j \in DOMAIN sel : sel[j].neg } }

\* Passes where a list of negations only starts from nothing
PassesFromNone(sel, v) ==
    v \in Positive(sel) /\ v \notin Negated(sel)

\* an OS or Arch passes its selector list: with no positive entry everything
\* but the negated values, else only the positive values that are not negated
Passes(sel, v) ==
    IF Positive(sel) = { }
    THEN v \notin Negated(sel)
    ELSE v \in Positive(sel) /\ v \notin Negated(sel)

\* Included where the OS and Arch negations are applied to listed pairs too
IncludedComponentsFirst(flag, p) ==
    /\ p.OS \notin Negated(flag.OS)
    /\ p.Arch \notin Negated(flag.Arch)
    /\ p \notin Negated(flag.OSArch)
    /\ \/ p \in Positive(flag.OSArch)
       \/ Passes(flag.OS, p.OS) /\ Passes(flag.Arch, p.Arch)

\* the pair selector decides the pairs it lists, the OS and Arch selectors
\* together decide the others
Included(flag, p) ==
    IF p \in Negated(flag.OSArch) THEN FALSE
    ELSE IF p \in Positive(flag.OSArch) THEN TRUE
    ELSE Passes(flag.OS, p.OS) /\ Passes(flag.Arch, p.Arch)

RECURSIVE Dedup(_)
\* first occurrences only, in order
Dedup(seq) ==
    IF seq = << >> THEN << >>
    ELSE LET front == Dedup(SubSeq(seq, 1, Len(seq) - 1))
             last == seq[Len(seq)]
         IN  IF \E i \in DOMAIN front : front[i] = last THEN front
             ELSE Append(front, last)

\* platformFlag.Platforms(supported)
FilterPlatforms(flag, supported) ==
    Dedup(SelectSeq(supported, LAMBDA p : Included(flag, p)))

\* the lists of at most MaxEntries different entries of S
Selectors(S) ==
    { sel \in UNION { [1..n -> S] : n \in 0..MaxEntries } :
          \A i, j \in DOMAIN sel : sel[i] = sel[j] => i = j }

Entries(S) == { [neg |-> n, val |-> v] : n \in BOOLEAN, v \in S }

\* the values of platformFlag tried: no pair is listed both plain and negated
PlatformFlags ==
    { [OS |-> o, Arch |-> a, OSArch |-> oa] :
          o \in Selectors(Entries({ "linux", "darwin" })),
          a \in Selectors(Entries({ "amd64", "386" })),
          oa \in { sel \in Selectors(Entries(PlatformSet)) :
                      Positive(sel) \cap Negated(sel) = { } } }

PlatformsCalls == { [fn |-> "Platforms", flag |-> f] : f \in PlatformFlags }

ApplyPlatforms ==
    /\ fnArgs.fn = "Platforms"
    /\ fnResult = NoCall
    /\ fnResult' = [fn |-> "Platforms",
                    platforms |-> FilterPlatforms(fnArgs.flag, SupportedPlatforms)]
    /\ UNCHANGED << pc, parallel, buildToolchain, flagListOSArch, goos, onPath,
                    fnArgs, cpus, versionParts, err, mainDirs, platforms,
                    spawned, syncVars, listVars, buildVars, toolVars, ret >>

\* ------------------------------------------ the functions on their own

InitPure ==
    /\ fnArgs \in CompileOptsCalls \cup PlatformsCalls
    /\ fnResult = NoCall
    /\ pc = "parallelism"
    /\ parallel = DefaultParallel
    /\ buildToolchain = FALSE
    /\ flagListOSArch = FALSE
    /\ goos = "linux"
    /\ onPath = TRUE
    /\ cpus = NoCPUs
    /\ versionParts = << >>
    /\ err = Nil
    /\ mainDirs = << >>
    /\ platforms = << >>
    /\ spawned = 0
    /\ wg = 0
    /\ semaphore = 0
    /\ errorLock = { }
    /\ mu = { }
    /\ errors = << >>
    /\ binPaths = << >>
    /\ wpc = [w \in Workers |-> "idle"]
    /\ werr = [w \in Workers |-> Nil]
    /\ invoked = [w \in Workers |-> 0]
    /\ tpc = [p \in PlatformSet |-> "idle"]
    /\ terr = [p \in PlatformSet |-> Nil]
    /\ launched = [p \in PlatformSet |-> 0]
    /\ verbose = FALSE
    /\ pipe = [p \in PlatformSet |-> "none"]
    /\ reader = [p \in PlatformSet |-> "none"]
    /\ ret = [paths |-> << >>, err |-> Nil]

NextPure ==
    \/ ApplyCompileOpts
    \/ ApplyPlatforms

SpecPure == InitPure /\ [][NextPure]_vars

\* ------------------------------------------------------ fair scheduling

\* CrossCompile is asked for a build, off Solaris, and finds the go command
InitBuild ==
    /\ Init
    /\ ~buildToolchain
    /\ ~flagListOSArch
    /\ onPath
    /\ goos = "linux"

\* the steps of a build of at most MaxFairWorkers (platform, path) pairs
NextBuild ==
    \/ Main /\ NumPairs' <= MaxFairWorkers
    \/ \E w \in Workers : Worker(w)

\* the Go scheduler lets every goroutine that can take a step take one, and
\* GoCrossCompile returns
Fairness ==
    /\ WF_vars(Main)
    /\ \A w \in Workers : WF_vars(Worker(w))

FairBuildSpec == InitBuild /\ [][NextBuild]_vars /\ Fairness

\* ----------------------------------------------------------- main.go 9-14

\* the exit status of the gox command
ExitCode == IF ret.err # Nil THEN 1 ELSE 0

\* ------------------------------------------------------------- properties

Max(a, b) == IF a >= b THEN a ELSE b

ElementsOf(seq) == { seq[i] : i \in DOMAIN seq }

\* the build goroutines inside GoCrossCompile
InFlight == { w \in Workers : wpc[w] = "compile" }

\* the build goroutines whose GoCrossCompile returned an error / a binary
Failed == { w \in Workers : werr[w] # Nil }
Succeeded == { w \in Workers : invoked[w] > 0 /\ werr[w] = Nil }

\* the pairs of the Cartesian product platforms x mainDirs
Pairs == { PairAt(k) : k \in 1..NumPairs }

\* the toolchain goroutines whose BuildToolchain returned an error
ToolFailed == { p \in PlatformSet : terr[p] # Nil }

\* the toolchain goroutines whose build script runs
Running == { p \in PlatformSet : tpc[p] = "running" }

\* C1: once the parallelism is resolved, the number of build goroutines that
\* have started GoCrossCompile and not returned from it never exceeds parallel.
C1_InFlightAtMostParallel ==
    pc \notin { "parallelism", "solaris" } => Cardinality(InFlight) <= parallel

\* C1 witness: two invocations in flight with parallel = 2, a third goroutine
\* blocked on the semaphore
C1_Witness ==
    /\ parallel = 2
    /\ Cardinality(InFlight) = 2
    /\ \E w \in Workers : wpc[w] = "acquire"

\* C2: when CrossCompile has returned and some invocation failed, the returned
\* error is non-nil and the command exits non-zero.
C2_FailureReturnsError ==
    (pc = "done" /\ Failed # { }) => (ret.err # Nil /\ ExitCode = 1)

\* the artifact path a successful goroutine appends
Artifact(w) == [path |-> w[2], binName |-> BinName(w, Nil)]

\* C3: when CrossCompile has returned and some but not all invocations failed,
\* the returned artifact list holds exactly the artifacts of the successful
\* invocations, one entry each.
C3_PartialArtifactsReturned ==
    (pc = "done" /\ Failed # { } /\ Succeeded # { }) =>
        /\ Len(ret.paths) = Cardinality(Succeeded)
        /\ ElementsOf(ret.paths) = { Artifact(w) : w \in Succeeded }

\* C4: when wg.Wait has returned, every goroutine of the product is done, no
\* lock is held, and the two lists together hold one entry per goroutine.
C4_BarrierOneContributionEach ==
    pc = "aggregate" =>
        /\ \A w \in Pairs : wpc[w] = "done"
        /\ errorLock = { } /\ mu = { }
        /\ Len(errors) + Len(binPaths) = NumPairs

\* C5: when wg.Wait of mainBuildToolchain has returned, every toolchain
\* goroutine has completed and the error of every failed platform is in errs.
C5_ToolchainBarrier ==
    pc = "t_aggregate" =>
        \A p \in ElementsOf(platforms) :
            /\ tpc[p] = "done"
            /\ terr[p] # Nil =>
                  \E i \in DOMAIN errors : errors[i].platform = p

\* C6: mainBuildToolchain, having built the platforms, returns a non-nil error
\* if some platform's script failed and nil if all succeeded.
C6_ToolchainErrorIffFailure ==
    (pc = "done" /\ buildToolchain /\ platforms # << >>) =>
        (ret.err # Nil <=> ToolFailed # { })

\* C7: at most one build script runs at any time, no platform's script is
\* launched twice, and when wg.Wait has returned the script was launched
\* exactly once for every resolved platform and for no other.
C7_SerialOncePerPlatform ==
    /\ Cardinality(Running) <= 1
    /\ \A p \in PlatformSet : launched[p] <= 1
    /\ pc = "t_aggregate" =>
          \A p \in PlatformSet :
              launched[p] = IF p \in ElementsOf(platforms) THEN 1 ELSE 0

\* C7 witness: one script runs while another platform's goroutine waits for
\* the semaphore, its script not launched yet
C7_Witness ==
    \E p, q \in PlatformSet :
        /\ tpc[p] = "running"
        /\ tpc[q] = "acquire"
        /\ launched[q] = 0

\* the resolved platform list is empty (line 260)
NoPlatforms ==
    onPath /\ err = Nil /\ ~flagListOSArch /\ platforms = << >>

\* C8: when CrossCompile (not -build-toolchain) has returned because the go
\* command is not on the PATH, GoVersion or GoMainDirs failed, or the resolved
\* platform list is empty, the error is non-nil, no goroutine was started and
\* GoCrossCompile was never called; for the empty list the error is
\* ErrNoValidPlatforms.
C8_TerminalErrors ==
    (pc = "done" /\ ~buildToolchain) =>
        /\ (~onPath \/ err # Nil \/ NoPlatforms) =>
              /\ ret.err # Nil
              /\ \A w \in Workers : wpc[w] = "idle" /\ invoked[w] = 0
              /\ spawned = 0 /\ wg = 0
        /\ NoPlatforms => ret.err = ErrNoValidPlatforms

\* C8 witness: units were found, no platform was resolved
C8_Witness ==
    /\ pc = "done" /\ ~buildToolchain
    /\ NoPlatforms
    /\ Len(mainDirs) > 0
    /\ ret.err = ErrNoValidPlatforms

\* C9 as stated: a requested value <= 0 resolves to max(1, cpus - 1), on
\* every operating system.
C9_DefaultIsCpusMinusOne ==
    (pc = "mode" /\ cpus # NoCPUs) => parallel = Max(1, cpus - 1)

\* C9 amended: a requested value <= 0 reads the CPU count and resolves to
\* max(1, cpus - 1), except on Solaris where it resolves to 3; a requested
\* value > 0 is kept unchanged; the resolved value is always >= 1.
C9_ParallelResolution ==
    /\ [](pc = "mode" /\ cpus # NoCPUs =>
            parallel = IF goos = "solaris" THEN SolarisParallel
                       ELSE Max(1, cpus - 1))
    /\ [][pc = "parallelism" /\ parallel <= 0 =>
            pc' = "solaris" /\ cpus' \in 1..MaxCPUs]_vars
    /\ [][pc = "parallelism" /\ parallel > 0 =>
            pc' = "mode" /\ parallel' = parallel /\ cpus' = NoCPUs]_vars
    /\ [](pc \notin { "parallelism", "solaris" } => parallel >= 1)

\* C9 witness: no parallelism requested, 4 CPUs, resolved to 3
C9_Witness ==
    pc = "mode" /\ goos = "linux" /\ cpus = 4 /\ parallel = 3

\* C10 as stated: on Solaris the resolved parallelism is at most 3.
C10_SolarisAtMostThree ==
    (goos = "solaris" /\ pc \notin { "parallelism", "solaris" }) =>
        parallel <= SolarisParallel

\* C10 amended: on Solaris a requested value <= 0 resolves to 3 for every CPU
\* count.
C10_SolarisDefaultIsThree ==
    (goos = "solaris" /\ pc = "mode" /\ cpus # NoCPUs) =>
        parallel = SolarisParallel

\* C10 witness: Solaris, one CPU, resolved to 3
C10_Witness ==
    goos = "solaris" /\ pc = "mode" /\ cpus = 1 /\ parallel = SolarisParallel

\* C11: the opts passed to GoCrossCompile carry the -gcflags value as Gcflags
\* and the -ldflags value as Ldflags, each replaced by the platform's
\* environment override when that is set.
C11_OptsCarryFlags ==
    fnResult.fn = "CompileOpts" =>
        LET envLd == fnArgs.environ[EnvKey(fnArgs.platform, "LDFLAGS")]
            envGc == fnArgs.environ[EnvKey(fnArgs.platform, "GCFLAGS")]
        IN  /\ fnResult.opts.Ldflags = IF envLd # "" THEN envLd ELSE fnArgs.ldflags
            /\ fnResult.opts.Gcflags = IF envGc # "" THEN envGc ELSE fnArgs.gcflags

\* -osarch="darwin/amd64" -arch="!amd64"
PairOverArchFlag ==
    [OS |-> << >>,
     Arch |-> << [neg |-> TRUE, val |-> "amd64"] >>,
     OSArch |-> << [neg |-> FALSE, val |-> Platform("darwin", "amd64")] >>]

\* C12: every pair listed plain in -osarch is resolved, also when its OS and
\* its Arch are negated in -os and -arch; a pair that -osarch does not list
\* is resolved exactly when its OS and its Arch pass their lists; and
\* -osarch="darwin/amd64" -arch="!amd64" resolves darwin/amd64 and no other
\* amd64 pair.
C12_PairSelectorPrecedence ==
    fnResult.fn = "Platforms" =>
        LET flag == fnArgs.flag
            resolved == ElementsOf(fnResult.platforms)
            osOK(p) == /\ p.OS \notin Negated(flag.OS)
                       /\ Positive(flag.OS) # { } => p.OS \in Positive(flag.OS)
            archOK(p) == /\ p.Arch \notin Negated(flag.Arch)
                         /\ Positive(flag.Arch) # { } => p.Arch \in Positive(flag.Arch)
        IN  /\ Positive(flag.OSArch) \subseteq resolved
            /\ \A p \in PlatformSet \ (Positive(flag.OSArch) \cup Negated(flag.OSArch)) :
                  p \in resolved <=> (osOK(p) /\ archOK(p))
            /\ flag = PairOverArchFlag =>
                  /\ Platform("darwin", "amd64") \in resolved
                  /\ \A p \in resolved :
                        p.Arch = "amd64" => p = Platform("darwin", "amd64")

\* C12 witness: a pair listed plain in -osarch is resolved although its OS is
\* negated in -os and its Arch is negated in -arch
C12_Witness ==
    /\ fnResult.fn = "Platforms"
    /\ \E p \in Positive(fnArgs.flag.OSArch) :
          /\ p.OS \in Negated(fnArgs.flag.OS)
          /\ p.Arch \in Negated(fnArgs.flag.Arch)
          /\ p \in ElementsOf(fnResult.platforms)

\* a selector list, last entry first
Reversed(sel) == [i \in DOMAIN sel |-> sel[Len(sel) + 1 - i]]

\* -os="!darwin"
NotDarwinFlag ==
    [OS |-> << [neg |-> TRUE, val |-> "darwin"] >>, Arch |-> << >>, OSArch |-> << >>]

\* C13: when every entry of -os, -arch and -osarch is a negation, the resolved
\* list is the candidate list without the platforms some entry negates, in the
\* candidates' order, whatever the order of the entries; -os="!darwin"
\* resolves [linux/amd64, linux/386].
C13_NegationsOnly ==
    LET flag == fnArgs.flag
    IN  (/\ fnResult.fn = "Platforms"
         /\ Positive(flag.OS) = { }
         /\ Positive(flag.Arch) = { }
         /\ Positive(flag.OSArch) = { }) =>
            /\ fnResult.platforms =
                  SelectSeq(SupportedPlatforms,
                            LAMBDA p : /\ p.OS \notin Negated(flag.OS)
                                       /\ p.Arch \notin Negated(flag.Arch)
                                       /\ p \notin Negated(flag.OSArch))
            /\ fnResult.platforms =
                  FilterPlatforms([OS |-> Reversed(flag.OS),
                                   Arch |-> Reversed(flag.Arch),
                                   OSArch |-> Reversed(flag.OSArch)],
                                  SupportedPlatforms)
            /\ flag = NotDarwinFlag =>
                  fnResult.platforms =
                      << Platform("linux", "amd64"), Platform("linux", "386") >>

\* C13 witness: two negations, of an OS and of a pair, have removed two
\* candidates
C13_Witness ==
    /\ fnResult.fn = "Platforms"
    /\ fnArgs.flag.Arch = << >>
    /\ fnArgs.flag.OS = << [neg |-> TRUE, val |-> "darwin"] >>
    /\ fnArgs.flag.OSArch = << [neg |-> TRUE, val |-> Platform("linux", "386")] >>
    /\ fnResult.platforms = << Platform("linux", "amd64") >>

\* the number of entries of seq that satisfy Test
Count(seq, Test(_)) == Cardinality({ i \in DOMAIN seq : Test(seq[i]) })

\* C14: when wg.Wait of CrossCompile has returned, binPaths holds one entry
\* for every goroutine whose GoCrossCompile succeeded and none for a failed
\* one, and errors holds one message for every failed goroutine, naming its
\* platform.
C14_AccumulatorsAtBarrier ==
    pc = "aggregate" =>
        /\ Len(binPaths) = Cardinality(Succeeded)
        /\ \A w \in Succeeded : Count(binPaths, LAMBDA b : b = Artifact(w)) = 1
        /\ \A w \in Failed : Count(binPaths, LAMBDA b : b.path = w[2] /\ b # Artifact(w)) = 0
        /\ Len(errors) = Cardinality(Failed)
        /\ \A p \in PlatformSet :
              Count(errors, LAMBDA e : e.platform = p)
                  = Cardinality({ w \in Failed : w[1] = p })

\* C15: GoCrossCompile is never called twice for a pair, and when wg.Wait of
\* CrossCompile has returned it has been called once for every pair of
\* platforms x mainDirs, whatever the number of failed calls.
C15_OneInvocationPerPair ==
    /\ \A w \in Workers : invoked[w] <= 1
    /\ \A w \in Workers \ Pairs : invoked[w] = 0
    /\ pc = "aggregate" => \A w \in Pairs : invoked[w] = 1

\* C15 witness: three pairs at the barrier, two calls failed and one succeeded
C15_Witness ==
    /\ pc = "aggregate"
    /\ NumPairs = MaxWorkers
    /\ Cardinality(Failed) = 2
    /\ Cardinality(Succeeded) = 1
    /\ \A w \in Pairs : invoked[w] = 1

\* the build goroutines between semaphore <- 1 and <-semaphore
Holding ==
    { w \in Workers :
          wpc[w] \in { "compile", "lockErr", "lockMu", "appendBin", "release" } }

\* C16: in a build run the number of permits in the semaphore channel is the
\* number of goroutines between their acquire and their release, so a
\* goroutine past its release holds none whether its call failed or not, and
\* no permit is held when CrossCompile has returned.
C16_PermitsBalanced ==
    ~buildToolchain =>
        /\ semaphore = Cardinality(Holding)
        /\ pc \in { "aggregate", "done" } => semaphore = 0

\* C16 witness: CrossCompile has returned after a failed and a successful call
\* and no permit is held
C16_Witness ==
    /\ ~buildToolchain
    /\ pc = "done"
    /\ Failed # { }
    /\ Succeeded # { }
    /\ \A w \in Pairs : wpc[w] = "done"
    /\ semaphore = 0

\* C17: no goroutine holds errorLock or mu inside GoCrossCompile, and no
\* goroutine holds errorLock when it locks mu, appends to binPaths or gives its
\* permit back.
C17_LocksOnlyAroundAppend ==
    \A w \in Workers :
        /\ wpc[w] = "compile" => w \notin errorLock /\ w \notin mu
        /\ wpc[w] \in { "lockMu", "appendBin", "release" } => w \notin errorLock

\* the toolchain goroutines whose output is being streamed
Streaming == { p \in PlatformSet : reader[p] = "reading" }

\* C19: in verbose mode a toolchain goroutine is past the deferred <-doneCh
\* of BuildToolchain (about to give its permit back, to signal the WaitGroup,
\* or returned) only when its streaming goroutine has read the closed pipe to
\* its end and closed doneCh, whether cmd.Start failed, cmd.Wait failed or
\* the script succeeded; the output of a platform is streamed only while its
\* goroutine holds the permit, so never for two platforms at once.
C19_ReaderDrainedBeforeReturn ==
    verbose =>
        /\ \A p \in PlatformSet :
              /\ (tpc[p] \in { "release", "wgdone", "lockErr", "appendErr", "done" }
                      /\ launched[p] > 0)
                    => (pipe[p] = "closed" /\ reader[p] = "closed")
              /\ reader[p] = "reading"
                    => tpc[p] \in { "running", "closepipe", "waitdone" }
        /\ Cardinality(Streaming) <= 1

\* C19 witness: a verbose toolchain build has returned after one cmd.Start
\* failure, one cmd.Wait failure and one success, every stream drained
C19_Witness ==
    /\ verbose
    /\ pc = "done"
    /\ { terr[p] : p \in ElementsOf(platforms) }
          = { "Error building (start)", "Error building (exit)", Nil }
    /\ \A p \in ElementsOf(platforms) : tpc[p] = "done" /\ reader[p] = "closed"

\* C20: whenever GoVersionParts returned a version of 1.5 or later (major > 1,
\* or major = 1 and minor >= 5) mainBuildToolchain launches no build script and
\* returns nil, and for an earlier version the script has been launched once
\* for every resolved platform when wg.Wait has returned.
C20_ShortCircuitFrom15 ==
    (buildToolchain /\ versionParts # << >>) =>
        IF versionParts[1] > 1 \/ (versionParts[1] = 1 /\ versionParts[2] >= 5)
        THEN /\ \A p \in PlatformSet : launched[p] = 0
             /\ pc = "done" => ret.err = Nil
        ELSE pc = "t_aggregate" =>
                 \A p \in PlatformSet :
                     launched[p] = IF p \in ElementsOf(platforms) THEN 1 ELSE 0

\* the build goroutines started and not finished
Live == { w \in Workers : wpc[w] \notin { "idle", "done" } }

\* a build goroutine waits for a permit, for errorLock or for mu
Blocked(w) ==
    \/ wpc[w] = "acquire" /\ semaphore >= parallel
    \/ wpc[w] = "lockErr" /\ errorLock # { }
    \/ wpc[w] = "lockMu" /\ mu # { }

\* C18: under fair scheduling, with GoCrossCompile always returning, every
\* started build goroutine gets a permit and later completes, and CrossCompile
\* returns, for every value of parallel and every mix of failed and successful
\* calls; and in no state are all the unfinished goroutines blocked on the
\* semaphore, errorLock or mu.
C18_DispatcherTerminates ==
    /\ \A w \in Workers : (wpc[w] = "acquire") ~> (wpc[w] = "compile")
    /\ \A w \in Workers : (wpc[w] = "compile") ~> (wpc[w] = "done")
    /\ <>(pc = "done")
    /\ [](Live # { } => \E w \in Live : ~Blocked(w))

\* C18 witness: CrossCompile has returned after its goroutines shared one
\* permit and two of them took errorLock
C18_Witness ==
    /\ ~buildToolchain
    /\ pc = "done"
    /\ parallel = 1
    /\ NumPairs = MaxFairWorkers
    /\ Cardinality(Failed) >= 2
    /\ \A w \in Pairs : wpc[w] = "done"

====
